---- MODULE Spec2Model ----
(***************************************************************************)
(* Wechat2Pdf: the image acquisition and smart-filtering pipeline of       *)
(* backend/main.py.                                                        *)
(*                                                                         *)
(*   Spec        one invocation of ArticleProcessor.download_images: the   *)
(*               semaphore-gated fetch tasks run by asyncio.gather, then   *)
(*               the collection of candidates and the filter loop.         *)
(*   SpecPolicy  SmartFilter.is_valid_exam_paper applied to one image and  *)
(*               one set of sub-detector readings, drawn in InitPolicy.    *)
(*                                                                         *)
(* Ratios are kept exact: a QR area ratio is an integer number of          *)
(* thousandths, the aspect ratio and the edge density are compared by      *)
(* cross-multiplication of the integers the code divides.                  *)
(***************************************************************************)
EXTENDS Integers, Sequences, FiniteSets

VARIABLES
    urls,          \* download_images: the urls argument (URL ids, in order)
    no_filter,     \* download_images: the no_filter argument
    phase,         \* download_images: "idle", "gather", "filter", "returned",
                   \* "raised", "cancelled"
    semaphore,     \* asyncio.Semaphore: the number of free admission slots
    tpc,           \* per task: "created", "holding", "body", "closing", "done",
                   \* "cancelled"
    declared,      \* per task in "body": the Content-Length header, <<>> or <<n>>
    img_data,      \* per task: len(img_data), the bytes accumulated so far
    nread,         \* per task: the body chunks read so far
    results,       \* per task: what download_single_image returned
    outcome,       \* how the most recently finished fetch ended
    candidates,    \* download_images: candidates
    idx,           \* download_images: position of the filter loop in candidates
    verdicts,      \* per candidate already classified: its URL and the verdict
    final_images,  \* download_images: final_images
    output,        \* download_images: the returned list
    net,           \* SmartFilter._net: "None" or "Net"
    pin,           \* SpecPolicy: the image and the sub-detector readings
    pout,          \* SpecPolicy: the verdict of is_valid_exam_paper
    svc,           \* convert_to_pdf: "idle", "request", "download", "done"
    reply,         \* convert_to_pdf: the response, its status and detail
    seen,          \* per whole-batch emptiness: the detail the caller was given
    cancel,        \* the batch was cancelled from outside
    other,         \* steps made by the fetches of another in-flight request
    lpc,           \* per thread calling load_model: its position in it
    inits          \* the assignments made to SmartFilter._net

vars == <<urls, no_filter, phase, semaphore, tpc, declared, img_data, nread,
          results, outcome, candidates, idx, verdicts, final_images, output,
          net, pin, pout, svc, reply, seen, cancel, other, lpc, inits>>

extraVars == <<svc, reply, seen, cancel, other, lpc, inits>>

batchVars == <<urls, no_filter, phase, semaphore, tpc, declared, img_data,
               nread, results, outcome, candidates, idx, verdicts,
               final_images, output>>

(***************************************************************************)
(* Bounds and program constants                                            *)
(***************************************************************************)

\* The longest URL list handed to download_images.
NumUrls == 3

\* The admission ceiling C. The source sets 10 (main.py:45); the model takes
\* a ceiling below NumUrls so that more fetches are pending than slots exist.
MAX_CONCURRENT_DOWNLOADS == 2

MIN_IMAGE_DIMENSION == 300

MAX_IMAGE_SIZE_BYTES == 10 * 1024 * 1024

HalfCap == MAX_IMAGE_SIZE_BYTES \div 2

\* The sizes of the body chunks a response may deliver: two of the first reach
\* the cap exactly and a third exceeds it; the second exceeds it at once.
ChunkSizes == {HalfCap, MAX_IMAGE_SIZE_BYTES + 1}

\* The Content-Length headers a response may carry: absent, at the cap, above it.
ContentLengths == {<<>>, <<MAX_IMAGE_SIZE_BYTES>>, <<MAX_IMAGE_SIZE_BYTES + 1>>}

\* The colour modes and dimensions Image.open may yield: three channels,
\* three with alpha, palette, greyscale, greyscale with alpha.
DecodedModes == {"RGB", "RGBA", "P", "L", "LA"}

DecodedDims == {MIN_IMAGE_DIMENSION - 1, MIN_IMAGE_DIMENSION}

Max(a, b) == IF a >= b THEN a ELSE b

Min(a, b) == IF a <= b THEN a ELSE b

NoImg == [w |-> 0, h |-> 0, mode |-> "none", id |-> 0]

None == [ok |-> FALSE, img |-> NoImg, size |-> 0, url |-> 0]

(***************************************************************************)
(* SmartFilter                                                             *)
(***************************************************************************)

\* What os.path.exists and cv2.dnn.readNet find at the model path.
ModelFiles == {"absent", "valid", "corrupt"}

\* load_model: the handle after the call, given the handle before it.
load_model(n, file) ==
    IF n = "None"
    THEN IF file = "absent" THEN "None"
         ELSE IF file = "valid" THEN "Net"
         ELSE "None"
    ELSE n

\* What the QR detector reports: an exception, a decoded payload with its
\* quadrilateral, an undecoded pattern, or nothing. ratio is area / (w * h)
\* in thousandths.
QRRatios == {50, 51, 200, 201, 400, 401}

QRReadings ==
    {[kind |-> "error", ratio |-> 0], [kind |-> "nothing", ratio |-> 0]}
    \cup {[kind |-> k, ratio |-> r] : k \in {"decoded", "pattern"}, r \in QRRatios}

\* ratio > 0.40 with a decoded payload: the early return of line 151.
HugeQR(qr) == qr.kind = "decoded" /\ qr.ratio > 400

\* has_prominent_qr as the QR block leaves it.
has_prominent_qr(qr) ==
    \/ qr.kind = "decoded" /\ qr.ratio <= 400 /\ qr.ratio > 50
    \/ qr.kind = "pattern" /\ qr.ratio > 200

\* What blobFromImage / forward / decode / NMSBoxes yield: an exception or
\* num_text_boxes.
BoxCounts == {0, 1, 3, 4, 7, 8, 9}

TextReadings ==
    {[raises |-> TRUE, boxes |-> 0]}
    \cup {[raises |-> FALSE, boxes |-> n] : n \in BoxCounts}

\* count_nonzero(edges) for an image of w * h pixels: densities around the
\* two thresholds 0.01 and 0.05.
EdgeCounts(w, h) ==
    {0, (w * h) \div 100, (w * h) \div 100 + 1, (w * h) \div 20, (w * h) \div 20 + 1}

\* cv2.cvtColor(np.array(pil_image), COLOR_RGB2BGR) accepts 3 or 4 channels.
CvtColorOk(mode) == mode \in {"RGB", "RGBA", "CMYK"}

Verdict(keep, reason, n) == [kind |-> "ok", keep |-> keep, reason |-> reason, net |-> n]

Raised(n) == [kind |-> "raise", keep |-> FALSE, reason |-> "exception", net |-> n]

HighTextDensityOff(boxes) == boxes > 8

\* Rule 1 of the decision logic.
HighTextDensity(boxes) == boxes >= 8

AspectTooSquareLoose(w, h) == 10 * Max(w, h) <= 13 * Min(w, h)

\* aspect_ratio < 1.3, with aspect_ratio = max(w, h) / min(w, h).
AspectTooSquare(w, h) == 10 * Max(w, h) < 13 * Min(w, h)

\* edge_density > pct / 100, with edge_density = count_nonzero(edges) / (w * h).
EdgeDensityAbove(edges, w, h, pct) == 100 * edges > pct * w * h

\* The decision logic, lines 205-240.
Cascade(w, h, prominent, boxes, edges, n) ==
    IF HighTextDensity(boxes) THEN Verdict(TRUE, "high_text", n)
    ELSE IF prominent THEN Verdict(FALSE, "qr_low_text", n)
    ELSE IF 4 <= boxes /\ boxes < 8
         THEN IF AspectTooSquare(w, h) THEN Verdict(FALSE, "card_shaped", n)
              ELSE Verdict(TRUE, "adequate_text", n)
    ELSE IF boxes > 0 /\ EdgeDensityAbove(edges, w, h, 1)
         THEN Verdict(TRUE, "sparse_text_lines", n)
    ELSE IF boxes = 0 /\ EdgeDensityAbove(edges, w, h, 5)
         THEN Verdict(TRUE, "line_rich", n)
    ELSE IF Max(w, h) > 4 * Min(w, h) THEN Verdict(FALSE, "strip", n)
    ELSE Verdict(FALSE, "too_sparse", n)

\* is_valid_exam_paper on image img, with the readings of the QR detector,
\* the text detector and the edge map, and the model handle n before the call.
is_valid_exam_paper(img, qr, txt, edges, n, file) ==
    IF img.w < MIN_IMAGE_DIMENSION \/ img.h < MIN_IMAGE_DIMENSION
    THEN Verdict(FALSE, "too_small", n)
    ELSE IF ~CvtColorOk(img.mode) THEN Raised(n)
    ELSE IF HugeQR(qr) THEN Verdict(FALSE, "huge_qr", n)
    ELSE IF load_model(n, file) = "None"
         THEN Verdict(TRUE, "model_unavailable", "None")
    ELSE IF txt.raises THEN Raised(load_model(n, file))
    ELSE Cascade(img.w, img.h, has_prominent_qr(qr), txt.boxes, edges,
                 load_model(n, file))

(***************************************************************************)
(* ArticleProcessor.download_single_image                                  *)
(***************************************************************************)

Tasks == 1 .. Len(urls)

\* What client.stream yields: an exception (connection error, timeout, or
\* raise_for_status on a bad status) or the response headers.
Responses ==
    [fails : BOOLEAN,
     ctype : {"image/jpeg", "text/html", "image/svg+xml"},
     clen  : ContentLengths]

\* What Image.open / img.load yield for the accumulated bytes.
Decodes ==
    {[kind |-> "bomb", mode |-> "none", w |-> 0, h |-> 0],
     [kind |-> "invalid", mode |-> "none", w |-> 0, h |-> 0]}
    \cup {[kind |-> "image", mode |-> m, w |-> w, h |-> h] :
            m \in DecodedModes, w \in DecodedDims, h \in DecodedDims}

CanAcquireUngated(s) == TRUE

\* async with semaphore: a slot is taken only while one is free.
CanAcquire(s) == s > 0

ExceedsCapNever(n) == FALSE

\* int(content_length) > MAX_IMAGE_SIZE_BYTES, len(img_data) > MAX_IMAGE_SIZE_BYTES
ExceedsCap(n) == n > MAX_IMAGE_SIZE_BYTES

\* 'text/html' in content_type or 'image/svg' in content_type
NonImageType(ctype) == ctype \in {"text/html", "image/svg+xml"}

\* if img.mode in ("RGBA", "P"): img = img.convert("RGB")
ConvertMode(mode) == IF mode \in {"RGBA", "P"} THEN "RGB" ELSE mode

TooSmallNever(w, h) == FALSE

\* w < MIN_IMAGE_DIMENSION or h < MIN_IMAGE_DIMENSION, line 438
TooSmall(w, h) == w < MIN_IMAGE_DIMENSION \/ h < MIN_IMAGE_DIMENSION

Candidate(img, size, url) == [ok |-> TRUE, img |-> img, size |-> size, url |-> url]

\* The end of download_single_image: the value is returned (None after a
\* rejection or a caught exception) and the admission slot released.
Finish(i, res, kind) ==
    /\ tpc' = [tpc EXCEPT ![i] = "done"]
    /\ results' = [results EXCEPT ![i] = res]
    /\ semaphore' = semaphore + 1
    /\ outcome' = kind
    /\ declared' = [declared EXCEPT ![i] = <<>>]
    /\ img_data' = [img_data EXCEPT ![i] = 0]
    /\ nread' = [nread EXCEPT ![i] = 0]

fetchUnchanged ==
    UNCHANGED <<urls, no_filter, phase, candidates, idx, verdicts,
                final_images, output, net, pin, pout, svc, reply, seen,
                cancel, other, lpc, inits>>

\* Line 389: the task enters the gated section.
Acquire(i) ==
    /\ phase = "gather"
    /\ tpc[i] = "created"
    /\ ~cancel
    /\ CanAcquire(semaphore)
    /\ semaphore' = semaphore - 1
    /\ tpc' = [tpc EXCEPT ![i] = "holding"]
    /\ UNCHANGED <<declared, img_data, nread, results, outcome>>
    /\ fetchUnchanged

\* Lines 399-409: raise_for_status, the content-type gate and the
\* declared-length gate, for one response; "body" when the body is to be read.
HeaderGate(resp) ==
    IF resp.fails THEN [kind |-> "failed", clen |-> <<>>]
    ELSE IF NonImageType(resp.ctype) THEN [kind |-> "content_type", clen |-> <<>>]
    ELSE IF Len(resp.clen) > 0 /\ ExceedsCap(resp.clen[1])
         THEN [kind |-> "size_declared", clen |-> <<>>]
    ELSE [kind |-> "body", clen |-> resp.clen]

\* Lines 398-412: the request is sent, the headers are checked.
OpenStream(i) ==
    /\ tpc[i] = "holding"
    /\ ~cancel
    /\ \E o \in {HeaderGate(resp) : resp \in Responses} :
         IF o.kind = "body"
         THEN /\ tpc' = [tpc EXCEPT ![i] = "body"]
              /\ declared' = [declared EXCEPT ![i] = o.clen]
              /\ UNCHANGED <<img_data, nread, results, semaphore, outcome>>
         ELSE Finish(i, None, o.kind)
    /\ fetchUnchanged

\* Lines 413-417: one iteration of the loop over resp.aiter_bytes().
ReadChunk(i) ==
    /\ tpc[i] = "body"
    /\ ~cancel
    /\ \E c \in ChunkSizes :
         IF ExceedsCap(img_data[i] + c)
         THEN Finish(i, None, "size_stream")
         ELSE /\ img_data' = [img_data EXCEPT ![i] = img_data[i] + c]
              /\ nread' = [nread EXCEPT ![i] = nread[i] + 1]
              /\ UNCHANGED <<tpc, declared, results, semaphore, outcome>>
    /\ fetchUnchanged

\* Lines 413, 443-445: the stream raises (read error, timeout).
ReadFails(i) ==
    /\ tpc[i] = "body"
    /\ ~cancel
    /\ Finish(i, None, "failed")
    /\ fetchUnchanged

\* Lines 423-441: decode, colour normalisation and the dimension gate, for
\* size accumulated bytes of url; the returned value and how the fetch ended.
DecodeGate(dec, size, url) ==
    IF dec.kind = "bomb" THEN [res |-> None, kind |-> "bomb"]
    ELSE IF dec.kind = "invalid" THEN [res |-> None, kind |-> "invalid"]
    ELSE IF TooSmall(dec.w, dec.h) THEN [res |-> None, kind |-> "too_small"]
    ELSE [res |-> Candidate([w |-> dec.w, h |-> dec.h,
                             mode |-> ConvertMode(dec.mode), id |-> url],
                            size, url),
          kind |-> "candidate"]

\* Image.open cannot identify an empty buffer.
DecodesOf(size) == IF size = 0 THEN {dec \in Decodes : dec.kind = "invalid"} ELSE Decodes

\* Lines 419-441: the stream is exhausted; decode, normalise, dimension gate.
EndStream(i) ==
    /\ tpc[i] = "body"
    /\ ~cancel
    /\ \E o \in {DecodeGate(dec, img_data[i], urls[i]) : dec \in DecodesOf(img_data[i])} :
         Finish(i, o.res, o.kind)
    /\ fetchUnchanged

(***************************************************************************)
(* ArticleProcessor.download_images                                        *)
(***************************************************************************)

GatherFirstCompleted == \E i \in Tasks : tpc[i] = "done"

\* await asyncio.gather(*tasks): every task has returned.
GatherDone == \A i \in Tasks : tpc[i] = "done"

RECURSIVE SelectOk(_, _)
\* for res in results: if res: candidates.append(res), from position k on.
SelectOk(rs, k) ==
    IF k > Len(urls) THEN <<>>
    ELSE IF rs[k].ok THEN <<rs[k]>> \o SelectOk(rs, k + 1)
    ELSE SelectOk(rs, k + 1)

\* [c[0] for c in candidates]
ImagesOf(cs) == [k \in 1 .. Len(cs) |-> cs[k].img]

BypassIgnored(nf) == FALSE

\* if no_filter: the filter stage is skipped.
BypassFilter(nf) == nf

PrependKept(imgs, img) == <<img>> \o imgs

\* final_images.append(img)
AppendKept(imgs, img) == Append(imgs, img)

\* The images a Candidate can hold, without their identity.
CandidateShapes ==
    [w : DecodedDims, h : DecodedDims, mode : {ConvertMode(m) : m \in DecodedModes}]

\* Every verdict is_valid_exam_paper can reach for an image of each shape and
\* each state of the handle, over the readings the sub-detectors may produce.
VerdictTable ==
    [sh \in CandidateShapes, n \in {"None", "Net"} |->
        {is_valid_exam_paper(sh, qr, txt, e, n, f) :
            qr \in QRReadings, txt \in TextReadings,
            e \in EdgeCounts(sh.w, sh.h), f \in ModelFiles}]

ClassifyOutcomes(img, n) ==
    VerdictTable[[w |-> img.w, h |-> img.h, mode |-> img.mode], n]

filterUnchanged ==
    UNCHANGED <<urls, no_filter, semaphore, tpc, declared, img_data, nread,
                results, outcome, pin, pout, svc, reply, seen, cancel, other,
                lpc, inits>>

\* Lines 471-485: gather returns, the candidates are collected.
Collect ==
    /\ phase = "gather"
    /\ ~cancel
    /\ GatherDone
    /\ candidates' = SelectOk(results, 1)
    /\ IF candidates' = <<>>
       THEN phase' = "returned" /\ output' = <<>> /\ UNCHANGED idx
       ELSE IF BypassFilter(no_filter)
       THEN phase' = "returned" /\ output' = ImagesOf(candidates') /\ UNCHANGED idx
       ELSE phase' = "filter" /\ idx' = 1 /\ UNCHANGED output
    /\ UNCHANGED <<verdicts, final_images, net>>
    /\ filterUnchanged

\* Lines 489-499: one iteration of the filter loop. The loop has no await:
\* every fetch has finished before it starts and nothing runs between two
\* of its iterations.
Classify ==
    /\ phase = "filter"
    /\ idx <= Len(candidates)
    /\ \E o \in ClassifyOutcomes(candidates[idx].img, net) :
         /\ net' = o.net
         /\ IF o.kind = "raise"
            THEN phase' = "raised" /\ UNCHANGED <<idx, verdicts, final_images>>
            ELSE /\ idx' = idx + 1
                 /\ verdicts' = Append(verdicts, [url |-> candidates[idx].url,
                                                     keep |-> o.keep])
                 /\ final_images' = IF o.keep
                                    THEN AppendKept(final_images, candidates[idx].img)
                                    ELSE final_images
                 /\ UNCHANGED phase
    /\ UNCHANGED <<candidates, output>>
    /\ filterUnchanged

\* Line 507: the loop is over, final_images is returned.
ReturnFiltered ==
    /\ phase = "filter"
    /\ idx > Len(candidates)
    /\ phase' = "returned"
    /\ output' = final_images
    /\ UNCHANGED <<candidates, idx, verdicts, final_images, net>>
    /\ filterUnchanged

NoVerdict == [kind |-> "pending", keep |-> FALSE, reason |-> "", net |-> "None"]

NoInput ==
    [img |-> NoImg, qr |-> [kind |-> "nothing", ratio |-> 0],
     txt |-> [raises |-> FALSE, boxes |-> 0], edges |-> 0,
     file |-> "absent", net |-> "None"]

\* The threads that may call load_model for the first time.
NumCallers == 3

Callers == 1 .. NumCallers

\* The three ways a whole batch can come out empty.
EmptyCauses == {"no_urls", "zero_fetches", "zero_surviving"}

NoReply == [status |-> 0, detail |-> ""]

\* No request is being served, nothing was cancelled, no thread is loading.
ExtraIdle ==
    /\ svc = "idle"
    /\ reply = NoReply
    /\ seen = [c \in EmptyCauses |-> ""]
    /\ cancel = FALSE
    /\ other = 0
    /\ lpc = [t \in Callers |-> "idle"]
    /\ inits = 0

Init ==
    /\ urls \in {[i \in 1 .. n |-> i] : n \in 0 .. NumUrls}
    /\ no_filter \in BOOLEAN
    /\ phase = "gather"
    /\ semaphore = MAX_CONCURRENT_DOWNLOADS
    /\ tpc = [i \in 1 .. Len(urls) |-> "created"]
    /\ declared = [i \in 1 .. Len(urls) |-> <<>>]
    /\ img_data = [i \in 1 .. Len(urls) |-> 0]
    /\ nread = [i \in 1 .. Len(urls) |-> 0]
    /\ results = [i \in 1 .. Len(urls) |-> None]
    /\ outcome = "none"
    /\ candidates = <<>>
    /\ idx = 0
    /\ verdicts = <<>>
    /\ final_images = <<>>
    /\ output = <<>>
    /\ net = "None"
    /\ pin = NoInput
    /\ pout = NoVerdict
    /\ ExtraIdle

Next ==
    \/ \E i \in Tasks : Acquire(i)
    \/ \E i \in Tasks : OpenStream(i)
    \/ \E i \in Tasks : ReadChunk(i)
    \/ \E i \in Tasks : ReadFails(i)
    \/ \E i \in Tasks : EndStream(i)
    \/ Collect
    \/ Classify
    \/ ReturnFiltered

Spec == Init /\ [][Next]_vars

(***************************************************************************)
(* SpecPolicy: is_valid_exam_paper on one image                            *)
(***************************************************************************)

\* Widths and heights around the dimension gate, the 1.3 aspect cutoff and
\* the aspect limit of 4.
PolicyWidths == {MIN_IMAGE_DIMENSION - 1, MIN_IMAGE_DIMENSION, 4 * MIN_IMAGE_DIMENSION + 1}

PolicyHeights == {MIN_IMAGE_DIMENSION, (13 * MIN_IMAGE_DIMENSION) \div 10}

PolicyInputs ==
    UNION {[img   : {[w |-> w, h |-> h, mode |-> m, id |-> 0]},
            qr    : QRReadings,
            txt   : TextReadings,
            edges : EdgeCounts(w, h),
            file  : ModelFiles,
            net   : {"None", "Net"}] :
           w \in PolicyWidths, h \in PolicyHeights, m \in {"RGB", "L"}}

InitPolicy ==
    /\ pin \in PolicyInputs
    /\ net = pin.net
    /\ pout = NoVerdict
    /\ urls = <<>>
    /\ no_filter = FALSE
    /\ phase = "idle"
    /\ semaphore = MAX_CONCURRENT_DOWNLOADS
    /\ tpc = <<>>
    /\ declared = <<>>
    /\ img_data = <<>>
    /\ nread = <<>>
    /\ results = <<>>
    /\ outcome = "none"
    /\ candidates = <<>>
    /\ idx = 0
    /\ verdicts = <<>>
    /\ final_images = <<>>
    /\ output = <<>>
    /\ ExtraIdle

\* One call of SmartFilter.is_valid_exam_paper.
Evaluate ==
    /\ pout.kind = "pending"
    /\ pout' = is_valid_exam_paper(pin.img, pin.qr, pin.txt, pin.edges, net, pin.file)
    /\ net' = pout'.net
    /\ UNCHANGED pin
    /\ UNCHANGED batchVars
    /\ UNCHANGED extraVars

NextPolicy == Evaluate

SpecPolicy == InitPolicy /\ [][NextPolicy]_vars

(***************************************************************************)
(* SpecConvert: api.convert_to_pdf, one request after another              *)
(***************************************************************************)

\* The names bound in api.py when convert_to_pdf runs: its imports (lines
\* 12-28) and its module-level definitions.
ApiNames ==
    {"logging", "os", "sys", "BytesIO", "FastAPI", "HTTPException",
     "CORSMiddleware", "StreamingResponse", "BaseModel", "ArticleProcessor",
     "logger", "app", "ConvertRequest", "convert_to_pdf", "health_check"}

Reply(status, detail) == [status |-> status, detail |-> detail]

\* The state in which no download_images call is in progress.
BatchIdle ==
    /\ urls' = <<>>
    /\ no_filter' = FALSE
    /\ phase' = "idle"
    /\ semaphore' = MAX_CONCURRENT_DOWNLOADS
    /\ tpc' = <<>>
    /\ declared' = <<>>
    /\ img_data' = <<>>
    /\ nread' = <<>>
    /\ results' = <<>>
    /\ outcome' = "none"
    /\ candidates' = <<>>
    /\ idx' = 0
    /\ verdicts' = <<>>
    /\ final_images' = <<>>
    /\ output' = <<>>

\* Lines 459-468 of main.py: download_images(image_urls, no_filter) starts.
BatchStart(n, nf) ==
    /\ urls' = [i \in 1 .. n |-> i]
    /\ no_filter' = nf
    /\ phase' = "gather"
    /\ semaphore' = MAX_CONCURRENT_DOWNLOADS
    /\ tpc' = [i \in 1 .. n |-> "created"]
    /\ declared' = [i \in 1 .. n |-> <<>>]
    /\ img_data' = [i \in 1 .. n |-> 0]
    /\ nread' = [i \in 1 .. n |-> 0]
    /\ results' = [i \in 1 .. n |-> None]
    /\ outcome' = "none"
    /\ candidates' = <<>>
    /\ idx' = 0
    /\ verdicts' = <<>>
    /\ final_images' = <<>>
    /\ output' = <<>>

\* The requests: whether fetch_html raises, how many URLs extract_image_urls
\* finds, and req.no_filter.
Requests ==
    {[html |-> "error", n |-> 0, nf |-> FALSE]}
    \cup {[html |-> "ok", n |-> 0, nf |-> FALSE]}
    \cup [html : {"ok"}, n : 1 .. NumUrls, nf : BOOLEAN]

\* Lines 74-91: fetch_html, extract_image_urls, the call of download_images.
HandleRequest ==
    /\ svc = "request"
    /\ \E req \in Requests :
         IF req.html = "error"
         THEN /\ reply' = Reply(400, "fetch_failed")
              /\ svc' = "done"
              /\ UNCHANGED <<batchVars, seen>>
         ELSE IF req.n = 0
         THEN /\ reply' = Reply(400, "no_image_links")
              /\ svc' = "done"
              /\ seen' = [seen EXCEPT !["no_urls"] = "no_image_links"]
              /\ UNCHANGED batchVars
         ELSE /\ BatchStart(req.n, req.nf)
              /\ svc' = "download"
              /\ UNCHANGED <<reply, seen>>
    /\ UNCHANGED <<net, pin, pout, cancel, other, lpc, inits>>

\* Lines 93-115: download_images has returned or raised; the PDF is
\* generated through asyncio.get_running_loop().run_in_executor and streamed.
\* Any exception other than HTTPException becomes a 500.
Respond ==
    /\ svc = "download"
    /\ phase \in {"returned", "raised"}
    /\ svc' = "done"
    /\ IF phase = "raised"
       THEN reply' = Reply(500, "exception") /\ UNCHANGED seen
       ELSE IF output = <<>>
       THEN /\ reply' = Reply(400, "no_valid_images")
            /\ seen' = [seen EXCEPT ![IF candidates = <<>> THEN "zero_fetches"
                                      ELSE "zero_surviving"] = "no_valid_images"]
       ELSE IF "asyncio" \notin ApiNames
       THEN reply' = Reply(500, "NameError") /\ UNCHANGED seen
       ELSE reply' = Reply(200, "application/pdf") /\ UNCHANGED seen
    /\ UNCHANGED <<batchVars, net, pin, pout, cancel, other, lpc, inits>>

\* The next request arrives; nothing of the batch is kept.
NextRequest ==
    /\ svc = "done"
    /\ svc' = "request"
    /\ reply' = NoReply
    /\ BatchIdle
    /\ UNCHANGED <<net, pin, pout, seen, cancel, other, lpc, inits>>

InitConvert ==
    /\ urls = <<>>
    /\ no_filter = FALSE
    /\ phase = "idle"
    /\ semaphore = MAX_CONCURRENT_DOWNLOADS
    /\ tpc = <<>>
    /\ declared = <<>>
    /\ img_data = <<>>
    /\ nread = <<>>
    /\ results = <<>>
    /\ outcome = "none"
    /\ candidates = <<>>
    /\ idx = 0
    /\ verdicts = <<>>
    /\ final_images = <<>>
    /\ output = <<>>
    /\ net = "None"
    /\ pin = NoInput
    /\ pout = NoVerdict
    /\ svc = "request"
    /\ reply = NoReply
    /\ seen = [c \in EmptyCauses |-> ""]
    /\ cancel = FALSE
    /\ other = 0
    /\ lpc = [t \in Callers |-> "idle"]
    /\ inits = 0

NextConvert ==
    \/ Next
    \/ HandleRequest
    \/ Respond
    \/ NextRequest

SpecConvert == InitConvert /\ [][NextConvert]_vars

(***************************************************************************)
(* SpecCancel: download_images cancelled from outside while it awaits      *)
(* asyncio.gather                                                          *)
(***************************************************************************)

cancelUnchanged ==
    UNCHANGED <<urls, no_filter, candidates, idx, verdicts, final_images,
                output, net, pin, pout, svc, reply, seen, other, lpc, inits>>

\* The task awaiting gather (line 471) is cancelled: gather passes the
\* cancellation to every child; each child meets it when it next resumes.
Cancel ==
    /\ phase = "gather"
    /\ ~cancel
    /\ cancel' = TRUE
    /\ UNCHANGED <<phase, semaphore, tpc, declared, img_data, nread, results,
                   outcome>>
    /\ cancelUnchanged

\* Line 389: a child that has not entered the gated section (not started,
\* or waiting in semaphore.acquire) ends cancelled; it holds no slot.
UnwindWaiting(i) ==
    /\ cancel
    /\ tpc[i] = "created"
    /\ tpc' = [tpc EXCEPT ![i] = "cancelled"]
    /\ UNCHANGED <<phase, semaphore, declared, img_data, nread, results,
                   outcome, cancel>>
    /\ cancelUnchanged

FinishCancelledNoRelease(i) ==
    /\ tpc' = [tpc EXCEPT ![i] = "cancelled"]
    /\ UNCHANGED semaphore
    /\ outcome' = "cancelled"
    /\ declared' = [declared EXCEPT ![i] = <<>>]
    /\ img_data' = [img_data EXCEPT ![i] = 0]
    /\ nread' = [nread EXCEPT ![i] = 0]

\* Lines 389, 443: CancelledError is no Exception, so line 443 does not
\* catch it; it leaves the async with of line 389, which releases the slot,
\* and the child ends cancelled.
FinishCancelled(i) ==
    /\ tpc' = [tpc EXCEPT ![i] = "cancelled"]
    /\ semaphore' = semaphore + 1
    /\ outcome' = "cancelled"
    /\ declared' = [declared EXCEPT ![i] = <<>>]
    /\ img_data' = [img_data EXCEPT ![i] = 0]
    /\ nread' = [nread EXCEPT ![i] = 0]

\* Lines 398, 413: CancelledError is raised at the await inside the stream.
\* Leaving the async with of line 398 closes the response, which either
\* completes at once or suspends the child once more.
UnwindInFlight(i) ==
    /\ cancel
    /\ tpc[i] \in {"holding", "body"}
    /\ \/ FinishCancelled(i)
       \/ /\ tpc' = [tpc EXCEPT ![i] = "closing"]
          /\ UNCHANGED <<semaphore, declared, img_data, nread, outcome>>
    /\ UNCHANGED <<phase, results, cancel>>
    /\ cancelUnchanged

\* The response is closed; the child leaves the gated section.
FinishClosing(i) ==
    /\ tpc[i] = "closing"
    /\ FinishCancelled(i)
    /\ UNCHANGED <<phase, results, cancel>>
    /\ cancelUnchanged

\* Line 471: gather raises CancelledError in download_images as soon as one
\* child has ended cancelled (or at once when no child was left to cancel),
\* without waiting for the children that are still closing their response.
\* Every child has met the cancellation by then: all were resumed together.
GatherCancelled ==
    /\ phase = "gather"
    /\ cancel
    /\ \A i \in Tasks : tpc[i] \in {"closing", "cancelled", "done"}
    /\ \/ \E i \in Tasks : tpc[i] = "cancelled"
       \/ \A i \in Tasks : tpc[i] = "done"
    /\ phase' = "cancelled"
    /\ UNCHANGED <<semaphore, tpc, declared, img_data, nread, results,
                   outcome, cancel>>
    /\ cancelUnchanged

NextCancel ==
    \/ Next
    \/ Cancel
    \/ \E i \in Tasks : UnwindWaiting(i)
    \/ \E i \in Tasks : UnwindInFlight(i)
    \/ \E i \in Tasks : FinishClosing(i)
    \/ GatherCancelled

SpecCancel == Init /\ [][NextCancel]_vars

(***************************************************************************)
(* SpecServe: the batch shares the event loop of the service with the      *)
(* fetches of another request in flight                                    *)
(***************************************************************************)

\* The fetch steps the other request has left.
MaxOther == 2

\* Lines 473-507: from the resumption after gather to the return,
\* download_images has no await and hands nothing to an executor (api.py
\* lines 99-100 do so for generate_pdf_bytes only), so the whole
\* classification loop of lines 489-499 is inside one step of the coroutine
\* and the event loop runs nothing else until it ends.
LoopBusy == phase = "filter"

\* A step of a fetch of the other request (a chunk received, a response
\* opened): a callback of the same event loop, run only between two steps
\* of the coroutines it schedules.
OtherFetchStep ==
    /\ other < MaxOther
    /\ ~LoopBusy
    /\ other' = other + 1
    /\ UNCHANGED batchVars
    /\ UNCHANGED <<net, pin, pout, svc, reply, seen, cancel, lpc, inits>>

NextServe ==
    \/ Next
    \/ OtherFetchStep

SpecServe == Init /\ [][NextServe]_vars

(***************************************************************************)
(* SpecLoad: threads that use the classifier concurrently, each through    *)
(* SmartFilter.load_model and the read of SmartFilter._net after it        *)
(***************************************************************************)

loadUnchanged ==
    /\ UNCHANGED batchVars
    /\ UNCHANGED <<pin, pout, svc, reply, seen, cancel, other>>

\* Line 86: the thread reads cls._net and compares it with None. Nothing
\* orders this read with the store of line 95 in another thread.
LoadModelCheck(t) ==
    /\ lpc[t] = "idle"
    /\ lpc' = [lpc EXCEPT ![t] = IF net = "None" THEN "checked" ELSE "returned"]
    /\ UNCHANGED <<net, inits>>
    /\ loadUnchanged

\* Lines 87-92: the model path is built and tested; without the file the
\* call returns and leaves the handle alone.
LoadModelExists(t) ==
    /\ lpc[t] = "checked"
    /\ \E file \in ModelFiles :
         lpc' = [lpc EXCEPT ![t] = IF file = "absent" THEN "returned"
                                   ELSE IF file = "valid" THEN "reading"
                                   ELSE "failing"]
    /\ UNCHANGED <<net, inits>>
    /\ loadUnchanged

\* Line 95: readNet succeeds and its result is stored in cls._net, whatever
\* the handle holds by now.
LoadModelReadNet(t) ==
    /\ lpc[t] = "reading"
    /\ net' = load_model("None", "valid")
    /\ inits' = inits + 1
    /\ lpc' = [lpc EXCEPT ![t] = "returned"]
    /\ loadUnchanged

\* Lines 96-97: readNet raises, the exception is logged, nothing is stored.
LoadModelRaises(t) ==
    /\ lpc[t] = "failing"
    /\ lpc' = [lpc EXCEPT ![t] = "returned"]
    /\ UNCHANGED <<net, inits>>
    /\ loadUnchanged

\* Lines 183-184: is_valid_exam_paper reads the handle after load_model:
\* keep by default without it, go on to text detection with it.
ReadHandle(t) ==
    /\ lpc[t] = "returned"
    /\ lpc' = [lpc EXCEPT ![t] = IF net = "None" THEN "kept_default"
                                 ELSE "detecting"]
    /\ UNCHANGED <<net, inits>>
    /\ loadUnchanged

\* The thread classifies its next image.
NextUse(t) ==
    /\ lpc[t] \in {"kept_default", "detecting"}
    /\ lpc' = [lpc EXCEPT ![t] = "idle"]
    /\ UNCHANGED <<net, inits>>
    /\ loadUnchanged

InitLoad ==
    /\ urls = <<>>
    /\ no_filter = FALSE
    /\ phase = "idle"
    /\ semaphore = MAX_CONCURRENT_DOWNLOADS
    /\ tpc = <<>>
    /\ declared = <<>>
    /\ img_data = <<>>
    /\ nread = <<>>
    /\ results = <<>>
    /\ outcome = "none"
    /\ candidates = <<>>
    /\ idx = 0
    /\ verdicts = <<>>
    /\ final_images = <<>>
    /\ output = <<>>
    /\ net = "None"
    /\ pin = NoInput
    /\ pout = NoVerdict
    /\ ExtraIdle

NextLoad ==
    \/ \E t \in Callers : LoadModelCheck(t)
    \/ \E t \in Callers : LoadModelExists(t)
    \/ \E t \in Callers : LoadModelReadNet(t)
    \/ \E t \in Callers : LoadModelRaises(t)
    \/ \E t \in Callers : ReadHandle(t)
    \/ \E t \in Callers : NextUse(t)

SpecLoad == InitLoad /\ [][NextLoad]_vars

(***************************************************************************)
(* Properties                                                              *)
(***************************************************************************)

\* The fetches inside the gated section of download_single_image.
Holders == {i \in Tasks : tpc[i] \in {"holding", "body"}}

\* The URLs whose fetch returned a Candidate.
Fetched == {u \in Tasks : results[u].ok}

\* The URLs whose Candidate the classifier kept.
Kept == {u \in Fetched : \E k \in 1 .. Len(verdicts) :
                            verdicts[k].url = urls[u] /\ verdicts[k].keep}

\* seq holds exactly the images of the URLs in set, each once, in the order
\* of the URLs in the input list.
ImagesInOrder(seq, set) ==
    /\ Len(seq) = Cardinality(set)
    /\ \A k \in 1 .. Len(seq) :
         \E u \in set : seq[k] = results[u].img /\ seq[k].id = urls[u]
    /\ \A k, l \in 1 .. Len(seq) : k < l => seq[k].id < seq[l].id

\* C1: at every instant at most MAX_CONCURRENT_DOWNLOADS fetches hold an
\* admission slot, however many URLs are pending.
C1_AdmissionBound == Cardinality(Holders) <= MAX_CONCURRENT_DOWNLOADS

\* Every slot is taken while a further fetch is still waiting for one.
C1_Witness ==
    /\ Cardinality(Holders) = MAX_CONCURRENT_DOWNLOADS
    /\ \E i \in Tasks : tpc[i] = "created"

\* C2: in filter mode download_images returns exactly the images that were
\* fetched and kept by the classifier, each once, in input order, whatever
\* the order in which the fetches completed.
C2_FilteredOutput ==
    (phase = "returned" /\ ~no_filter) => ImagesInOrder(output, Kept)

\* A batch with a failed fetch, a discarded candidate and a kept one.
C2_Witness ==
    /\ phase = "returned" /\ ~no_filter
    /\ \E u \in Tasks : ~results[u].ok
    /\ \E k \in 1 .. Len(verdicts) : ~verdicts[k].keep
    /\ Len(output) >= 1

\* C3: a failed fetch never aborts the batch: once gather has returned every
\* fetch has finished and every successful one is among the candidates.
C3_NoFailFast ==
    phase /= "gather" =>
        /\ \A i \in Tasks : tpc[i] = "done"
        /\ \A u \in Fetched : \E k \in 1 .. Len(candidates) : candidates[k] = results[u]

\* A fetch failed and a URL after it in the list still became a candidate.
C3_Witness ==
    /\ phase /= "gather"
    /\ \E u, v \in Tasks :
         /\ u < v /\ ~results[u].ok /\ results[v].ok
         /\ \E k \in 1 .. Len(candidates) : candidates[k] = results[v]

\* C4: an error raised while classifying one candidate is recovered locally,
\* so download_images never ends by raising.
C4_ClassifyErrorRecovered == phase /= "raised"

\* The image was evaluated, passes the dimension gate and is one the colour
\* conversion of line 119 accepts.
Evaluated ==
    /\ pout.kind /= "pending"
    /\ pin.img.w >= MIN_IMAGE_DIMENSION /\ pin.img.h >= MIN_IMAGE_DIMENSION
    /\ pin.img.mode = "RGB"

\* The model artifact is absent and the handle is None.
ModelAbsent == pin.net = "None" /\ pin.file = "absent"

\* The handle is loaded when the text detector is reached.
ModelLoaded == pin.net = "Net" \/ pin.file = "valid"

\* A decoded QR payload whose quadrilateral covers more than 0.40 of the image.
DominantQR == pin.qr.kind = "decoded" /\ pin.qr.ratio > 400

\* No QR signal: nothing found, a detector error, or a code below the
\* thresholds of the two soft flags.
NoQRSignal ==
    \/ pin.qr.kind \in {"nothing", "error"}
    \/ pin.qr.kind = "decoded" /\ pin.qr.ratio <= 50
    \/ pin.qr.kind = "pattern" /\ pin.qr.ratio <= 200

KeptAs(reason) == pout.kind = "ok" /\ pout.keep /\ pout.reason = reason

Discarded == pout.kind = "ok" /\ ~pout.keep

\* C5: with the model artifact absent every image that passes the dimension
\* gate is kept with reason "model unavailable", whatever the QR detector
\* reports. Stated on 3-channel images, where line 119 cannot raise.
C5_DegradeKeepsAll ==
    (Evaluated /\ ModelAbsent) => KeptAs("model_unavailable")

\* C6 as claimed: with the model loaded, textBoxCount >= 8 yields KEEP for
\* every QR signal, a dominant QR included.
C6_HighTextAlwaysKept ==
    (Evaluated /\ ModelLoaded /\ ~pin.txt.raises /\ pin.txt.boxes >= 8)
        => KeptAs("high_text")

\* C6 as amended: with the model loaded a dominant QR is discarded whatever
\* the text density, and for every other QR signal textBoxCount >= 8 yields
\* KEEP with reason "high text density".
C6_HighTextKeptUnlessDominant ==
    /\ (Evaluated /\ DominantQR) => (Discarded /\ pout.reason = "huge_qr")
    /\ (Evaluated /\ ModelLoaded /\ ~DominantQR /\ ~pin.txt.raises
            /\ pin.txt.boxes >= 8) => KeptAs("high_text")

\* A prominent QR at the 0.40 boundary with exactly 8 text boxes is kept.
C6_Witness ==
    /\ Evaluated /\ ModelLoaded
    /\ pin.qr.kind = "decoded" /\ pin.qr.ratio = 400
    /\ ~pin.txt.raises /\ pin.txt.boxes = 8
    /\ KeptAs("high_text")

\* C7: with no QR signal, 7 text boxes at aspect ratio exactly 1.3 are kept,
\* no text box at edge density exactly 0.05 is discarded, and 8 text boxes
\* are kept.
C7_StrictThresholds ==
    (Evaluated /\ ModelLoaded /\ NoQRSignal /\ ~pin.txt.raises) =>
        /\ (pin.txt.boxes = 7
              /\ 10 * Max(pin.img.w, pin.img.h) = 13 * Min(pin.img.w, pin.img.h))
           => (pout.kind = "ok" /\ pout.keep)
        /\ (pin.txt.boxes = 0 /\ 20 * pin.edges = pin.img.w * pin.img.h)
           => Discarded
        /\ pin.txt.boxes = 8 => (pout.kind = "ok" /\ pout.keep)

\* Seven text boxes on an image of aspect ratio exactly 1.3, kept.
C7_Witness ==
    /\ Evaluated /\ ModelLoaded /\ NoQRSignal /\ ~pin.txt.raises
    /\ pin.txt.boxes = 7
    /\ 10 * Max(pin.img.w, pin.img.h) = 13 * Min(pin.img.w, pin.img.h)
    /\ KeptAs("adequate_text")

\* C8: a body is never read when the declared length exceeds the cap, no
\* chunk is read once the accumulated size exceeds the cap, and no Candidate
\* holds more than MAX_IMAGE_SIZE_BYTES bytes.
C8_SizeGate ==
    \A i \in Tasks :
        /\ tpc[i] = "body" =>
              /\ Len(declared[i]) = 0 \/ declared[i][1] <= MAX_IMAGE_SIZE_BYTES
              /\ img_data[i] <= MAX_IMAGE_SIZE_BYTES
        /\ results[i].ok => results[i].size <= MAX_IMAGE_SIZE_BYTES

\* A fetch was rejected mid-stream while another, of exactly cap bytes,
\* became a Candidate.
C8_Witness ==
    /\ outcome = "size_stream"
    /\ \E i \in Tasks : results[i].ok /\ results[i].size = MAX_IMAGE_SIZE_BYTES

\* C9: every returned image is at least 300 wide and 300 high, with and
\* without the filter.
C9_ReturnedDimensions ==
    phase = "returned" =>
        \A k \in 1 .. Len(output) :
            output[k].w >= MIN_IMAGE_DIMENSION /\ output[k].h >= MIN_IMAGE_DIMENSION

\* Without the filter, an undersized image was rejected by the fetch and
\* another image returned.
C9_Witness ==
    /\ phase = "returned" /\ no_filter
    /\ outcome = "too_small"
    /\ Len(output) >= 1

\* C10: with no_filter the Decision Policy is never invoked and the output
\* is the image of every fetched Candidate, in candidate order.
C10_NoFilterReturnsAll ==
    (phase = "returned" /\ no_filter) =>
        /\ ImagesInOrder(output, Fetched)
        /\ verdicts = <<>>
        /\ net = "None"

\* Without the filter, two candidates returned and one fetch failed.
C10_Witness ==
    /\ phase = "returned" /\ no_filter
    /\ Len(output) >= 2
    /\ \E u \in Tasks : ~results[u].ok

\* C11: the three whole-batch emptiness outcomes reach the caller with
\* pairwise distinct reasons.
C11_DistinctEmptinessReasons ==
    \A c1, c2 \in EmptyCauses :
        (c1 /= c2 /\ seen[c1] /= "" /\ seen[c2] /= "") => seen[c1] /= seen[c2]

\* C12: a request whose markup fetch succeeded, whose extraction found a URL
\* and whose download_images returned an image is answered with the document
\* stream.
C12_DocumentReturned ==
    (svc = "done" /\ phase = "returned" /\ Len(urls) >= 1 /\ Len(output) >= 1)
        => reply.status = 200

\* The fetches that hold an admission slot, those closing their response
\* after a cancellation included.
SlotHolders == {i \in Tasks : tpc[i] \in {"holding", "body", "closing"}}

\* C13 as claimed: whenever download_images has returned or been cancelled,
\* none of the admission slots is still held.
C13_NoSlotHeldAfterBatch ==
    phase \in {"returned", "cancelled"} => semaphore = MAX_CONCURRENT_DOWNLOADS

\* C13 as amended: a slot is held only by a fetch that has not ended yet,
\* whatever the outcome of the fetches that ended; no slot is held once
\* download_images has returned or raised, nor, after a cancellation, once
\* every fetch has ended.
C13_SlotsReleasedWithFetch ==
    /\ semaphore + Cardinality(SlotHolders) = MAX_CONCURRENT_DOWNLOADS
    /\ phase \in {"filter", "returned", "raised"} => semaphore = MAX_CONCURRENT_DOWNLOADS
    /\ (\A i \in Tasks : tpc[i] \in {"done", "cancelled"})
          => semaphore = MAX_CONCURRENT_DOWNLOADS

\* A cancelled batch all of whose fetches have ended, one of them cancelled
\* inside the gated section, another after a normal end.
C13_Witness ==
    /\ phase = "cancelled"
    /\ outcome = "cancelled"
    /\ \A i \in Tasks : tpc[i] \in {"done", "cancelled"}
    /\ \E i \in Tasks : tpc[i] = "done"
    /\ semaphore = MAX_CONCURRENT_DOWNLOADS

\* C14: while the candidates of one request are being classified, a fetch of
\* another request in flight that has steps left can take its next step.
C14_FetchesProgressDuringClassify ==
    (phase = "filter" /\ other < MaxOther) => ENABLED OtherFetchStep

\* C15: SmartFilter._net is initialised at most once, whatever the
\* interleaving of the first uses of load_model: no second store follows
\* the first.
C15_InitialisedAtMostOnce == inits <= 1

\* C16: every Candidate download_single_image returned, and every image
\* the filter loop hands to is_valid_exam_paper, is a 3-channel image.
C16_CandidatesThreeChannel ==
    /\ \A i \in Tasks : results[i].ok => results[i].img.mode = "RGB"
    /\ \A k \in 1 .. Len(candidates) : candidates[k].img.mode = "RGB"

====
